---------------------------- MODULE Spec2Model ----------------------------
(* SudoCube: the sudoku generator (core/generator) and the validator       *)
(* (core/validator).  Grids are functions row -> col -> value with rows and *)
(* columns counted from 0, as in the source; 0 is an empty cell.            *)
EXTENDS Integers, Sequences, FiniteSets, TLC

(***************************************************************************)
(* Bounds of the model                                                     *)
(***************************************************************************)
\* On a board of at most this many cells a shuffled array takes every order.
FullShuffleCells == 9
\* On a larger board a shuffled array is the original array rotated to start
\* at one of its first MaxCarveChoices elements.
MaxCarveChoices == 2
\* A grid handed to the validator differs from its base grid (the empty grid
\* or a solved grid) in at most this many cells.
MaxEdits == 2

\* Calls made on one validator.
MaxCalls == 3

\* Empty cells of a board handed to hasUniqueSolution on its own.
MaxHoles == 7

\* setCell calls the history of the game store holds at most.
MaxMoves == 2

(***************************************************************************)
(* Program constants                                                       *)
(***************************************************************************)
QuickSizeLimit == 9
UniqueSizeLimit == 9
RemoveEasyPct == 40
RemoveMediumPct == 55
RemoveHardPct == 70
RemoveDefaultPct == 50
KeepEasyPct == 70
KeepMediumPct == 50
KeepHardPct == 30
KeepDefaultPct == 50

(***************************************************************************)
(* State                                                                   *)
(***************************************************************************)
VARIABLES
    config,         \* the SudokuConfig of the generator
    pc,             \* where the generateSudoku call stands
    path,           \* "puzzle" (generatePuzzle) or "quick" (generateQuickPuzzle)
    solution,       \* the grid solveSudoku fills, later the returned solution
    stack,          \* the active solveSudoku calls, innermost last
    ctl,            \* solveSudoku: "call", "loop", "retT", "retF"
    puzzle,         \* the grid being carved
    preset,         \* the preset mask
    cellsToRemove,  \* generatePuzzle's quota
    removed,        \* generatePuzzle's counter
    visited,        \* positions already taken from the shuffled array
    boxes,          \* generateQuickPuzzle: number of sub-regions processed
    uniqueChecks,   \* hasUniqueSolution calls made by the generator
    grid,           \* the grid a caller hands to the validator
    key,            \* the other arguments: a solution, or <<row, col, num>>
    call,           \* the method called on the grid that returned last
    returned,       \* and what it returned
    results,        \* the validator calls made so far and their results
    testBoard,      \* hasUniqueSolution: the copy the search works on
    solutionCount,  \* hasUniqueSolution: the counter of the closure
    cstack,         \* the active countSolutions calls, innermost last
    cctl,           \* countSolutions: "call", "loop", "ret"
    probes,         \* isValid tests made while solutionCount > 1
    answer,         \* what hasUniqueSolution returned, <<>> before it has
    storeBoard,     \* game store: the board the player fills
    history,        \* game store: the snapshots pushed by setCell
    isCompleteFlag, \* game store: the isComplete field
    selectedCell,   \* game store: <<row, col>>, <<>> for null
    emitted,        \* GameBoard: the event of the last handleNumberClick
    moves           \* accepted setCell calls minus undos that popped a snapshot

genVars == <<config, pc, path, solution, stack, ctl, puzzle, preset,
             cellsToRemove, removed, visited, boxes, uniqueChecks>>

valVars == <<grid, key, call, returned, results>>

cntVars == <<testBoard, solutionCount, cstack, cctl, probes, answer>>

storeVars == <<storeBoard, history, isCompleteFlag, selectedCell, emitted,
               moves>>

vars == <<genVars, valVars, cntVars, storeVars>>

Difficulty == {"easy", "medium", "hard"}

\* SudokuConfig values the model runs on: every shape with
\* subRows * subCols = size up to 3, and the 4x4 board with 2x2 sub-regions.
Shapes ==
    { [size |-> 2, subRows |-> 1, subCols |-> 2],
      [size |-> 2, subRows |-> 2, subCols |-> 1],
      [size |-> 3, subRows |-> 1, subCols |-> 3],
      [size |-> 3, subRows |-> 3, subCols |-> 1],
      [size |-> 4, subRows |-> 2, subCols |-> 2] }

SudokuConfig ==
    { [size |-> s.size, subRows |-> s.subRows, subCols |-> s.subCols,
       difficulty |-> d] : s \in Shapes, d \in Difficulty }

Idx(cfg) == 0 .. (cfg.size - 1)

\* Array(size).fill(0).map(() => Array(size).fill(v))
FilledGrid(cfg, v) == [r \in Idx(cfg) |-> [c \in Idx(cfg) |-> v]]

\* All [row, col] pairs in the order the nested loops push them.
Positions(cfg) == { <<r, c>> : r \in Idx(cfg), c \in Idx(cfg) }

\* Rank of a position in row-major order.
RowMajor(cfg, p) == p[1] * cfg.size + p[2]

\* Math.floor(n * pct/100) and Math.ceil(n * pct/100)
FloorPct(n, pct) == (n * pct) \div 100
CeilPct(n, pct) == ((n * pct) + 99) \div 100

(***************************************************************************)
(* SudokuGenerator.isValid: the point check                                *)
(***************************************************************************)
\* Mutation: isValid without the sub-region loop.
isValidNoBox(cfg, board, row, col, num) ==
    /\ \A x \in Idx(cfg) : board[row][x] # num
    /\ \A x \in Idx(cfg) : board[x][col] # num

\* Mutation: isValid without the column loop.
isValidNoColumn(cfg, board, row, col, num) ==
    /\ \A x \in Idx(cfg) : board[row][x] # num
    /\ LET startRow == row - (row % cfg.subRows)
           startCol == col - (col % cfg.subCols)
       IN  \A i \in 0 .. (cfg.subRows - 1) : \A j \in 0 .. (cfg.subCols - 1) :
              board[i + startRow][j + startCol] # num

isValid(cfg, board, row, col, num) ==
    /\ \A x \in Idx(cfg) : board[row][x] # num
    /\ \A x \in Idx(cfg) : board[x][col] # num
    /\ LET startRow == row - (row % cfg.subRows)
           startCol == col - (col % cfg.subCols)
       IN  \A i \in 0 .. (cfg.subRows - 1) : \A j \in 0 .. (cfg.subCols - 1) :
              board[i + startRow][j + startCol] # num

\* The row-major scan of solveSudoku and countSolutions for the first cell
\* holding 0, from the k-th cell on; <<>> when the scan finds none.
RECURSIVE ScanEmpty(_, _, _)
ScanEmpty(cfg, board, k) ==
    IF k >= cfg.size * cfg.size THEN <<>>
    ELSE IF board[k \div cfg.size][k % cfg.size] = 0
         THEN <<k \div cfg.size, k % cfg.size>>
         ELSE ScanEmpty(cfg, board, k + 1)

FirstEmpty(cfg, board) == ScanEmpty(cfg, board, 0)

(***************************************************************************)
(* SudokuGenerator.hasUniqueSolution                                       *)
(***************************************************************************)
\* Mutation: the search is left as soon as one solution is counted.
abortedAtOnce(count) == count > 0

\* Mutation: the search is left one solution late.
abortedLate(count) == count > 2

\* if (solutionCount > 1) return
aborted(count) == count > 1

RECURSIVE countSolutions(_, _, _)
RECURSIVE countLoop(_, _, _, _, _, _)

\* The for loop over num = 1..size at the first empty cell; the board is
\* restored (cell := 0) after each recursive call, so each candidate is
\* tried on the same board.
countLoop(cfg, board, row, col, num, count) ==
    IF num > cfg.size THEN count
    ELSE LET after ==
               IF isValid(cfg, board, row, col, num)
               THEN countSolutions(cfg, [board EXCEPT ![row][col] = num],
                                   count)
               ELSE count
         IN  countLoop(cfg, board, row, col, num + 1, after)
\* The value of solutionCount when the call returns; count is its value
\* when the call is made.
countSolutions(cfg, board, count) ==
    IF aborted(count) THEN count
    ELSE LET e == FirstEmpty(cfg, board)
         IN  IF e = <<>> THEN count + 1
             ELSE countLoop(cfg, board, e[1], e[2], 1, count)

\* Mutation: solutionCount >= 1 in place of === 1.
hasUniqueSolutionAtLeastOne(cfg, board) == countSolutions(cfg, board, 0) >= 1

hasUniqueSolution(cfg, board) == countSolutions(cfg, board, 0) = 1

(***************************************************************************)
(* SudokuValidator.validate                                                *)
(***************************************************************************)
\* The cells of a row, a column and a sub-region in the order the loops
\* visit them.
rowLine(cfg, row) == [k \in 1 .. cfg.size |-> <<row, k - 1>>]
colLine(cfg, col) == [k \in 1 .. cfg.size |-> <<k - 1, col>>]
\* Mutation: the cells of a sub-region are scanned column by column.
boxLineColumnMajor(cfg, boxRow, boxCol) ==
    [k \in 1 .. (cfg.subRows * cfg.subCols) |->
        <<boxRow + ((k - 1) % cfg.subRows), boxCol + ((k - 1) \div cfg.subRows)>>]

boxLine(cfg, boxRow, boxCol) ==
    [k \in 1 .. (cfg.subRows * cfg.subCols) |->
        <<boxRow + ((k - 1) \div cfg.subCols), boxCol + ((k - 1) % cfg.subCols)>>]

\* One line with its own seen set: a non-zero value already seen pushes a
\* conflict at the current cell, any other non-zero value is added to seen.
RECURSIVE scanLine(_, _, _, _, _, _)
\* Mutation: every non-zero cell is pushed, seen or not.
scanLineFirstToo(board, line, type, i, seen, conflicts) ==
    IF i > Len(line) THEN conflicts
    ELSE LET row == line[i][1]
             col == line[i][2]
             value == board[row][col]
             entry == [row |-> row, col |-> col, value |-> value, type |-> type]
         IN  IF value # 0
             THEN scanLine(board, line, type, i + 1, seen \cup {value},
                           Append(conflicts, entry))
             ELSE scanLine(board, line, type, i + 1, seen, conflicts)

\* Mutation: a value that is reported leaves the seen set, so the next cell
\* holding it is taken for a first occurrence.
scanLineForgets(board, line, type, i, seen, conflicts) ==
    IF i > Len(line) THEN conflicts
    ELSE LET row == line[i][1]
             col == line[i][2]
             value == board[row][col]
             entry == [row |-> row, col |-> col, value |-> value, type |-> type]
         IN  IF value # 0
             THEN IF value \in seen
                  THEN scanLine(board, line, type, i + 1, seen \ {value},
                                Append(conflicts, entry))
                  ELSE scanLine(board, line, type, i + 1, seen \cup {value},
                                conflicts)
             ELSE scanLine(board, line, type, i + 1, seen, conflicts)

scanLine(board, line, type, i, seen, conflicts) ==
    IF i > Len(line) THEN conflicts
    ELSE LET row == line[i][1]
             col == line[i][2]
             value == board[row][col]
             entry == [row |-> row, col |-> col, value |-> value, type |-> type]
         IN  IF value # 0
             THEN IF value \in seen
                  THEN scanLine(board, line, type, i + 1, seen,
                                Append(conflicts, entry))
                  ELSE scanLine(board, line, type, i + 1, seen \cup {value},
                                conflicts)
             ELSE scanLine(board, line, type, i + 1, seen, conflicts)

RECURSIVE checkRows(_, _, _, _)
checkRows(cfg, board, row, conflicts) ==
    IF row >= cfg.size THEN conflicts
    ELSE checkRows(cfg, board, row + 1,
                   scanLine(board, rowLine(cfg, row), "row", 1, {}, conflicts))

\* Mutation: the column pass is skipped.
checkColsNone(cfg, board, col, conflicts) == conflicts

RECURSIVE checkCols(_, _, _, _)
checkCols(cfg, board, col, conflicts) ==
    IF col >= cfg.size THEN conflicts
    ELSE checkCols(cfg, board, col + 1,
                   scanLine(board, colLine(cfg, col), "column", 1, {}, conflicts))

\* Mutation: the sub-region pass is skipped.
checkBoxesNone(cfg, board, boxRow, boxCol, conflicts) == conflicts

RECURSIVE checkBoxes(_, _, _, _, _)
checkBoxes(cfg, board, boxRow, boxCol, conflicts) ==
    IF boxRow >= cfg.size THEN conflicts
    ELSE IF boxCol >= cfg.size
         THEN checkBoxes(cfg, board, boxRow + cfg.subRows, 0, conflicts)
         ELSE checkBoxes(cfg, board, boxRow, boxCol + cfg.subCols,
                         scanLine(board, boxLine(cfg, boxRow, boxCol), "box",
                                  1, {}, conflicts))

\* Mutation: the conflicts array outlives the call, a validate that follows
\* a validate appends to the list of the one before.
allConflictsKept(cfg, board) ==
    checkBoxes(cfg, board, 0, 0,
               checkCols(cfg, board, 0, checkRows(cfg, board, 0,
                   IF call = "validate" /\ ~returned.isValid
                   THEN returned.conflicts ELSE <<>>)))

\* The conflicts array when the three passes are over.
allConflicts(cfg, board) ==
    checkBoxes(cfg, board, 0, 0,
               checkCols(cfg, board, 0, checkRows(cfg, board, 0, <<>>)))

\* The returned ValidationResult.  "conflicts: undefined" is a record
\* without the field: the result then holds no list.
\* Mutation: the conflicts array is returned even when empty.
ValidationResultAlwaysList(conflicts) ==
    [isValid |-> Len(conflicts) = 0, conflicts |-> conflicts]

ValidationResult(conflicts) ==
    IF Len(conflicts) > 0
    THEN [isValid |-> Len(conflicts) = 0, conflicts |-> conflicts]
    ELSE [isValid |-> Len(conflicts) = 0]

validate(cfg, board) == ValidationResult(allConflicts(cfg, board))

(***************************************************************************)
(* SudokuValidator.isComplete and SudokuValidator.isSolutionValid          *)
(***************************************************************************)
\* Mutation: isComplete without the scan for empty cells.
isCompleteNoScan(cfg, board) == validate(cfg, board).isValid

isComplete(cfg, board) ==
    IF \E row \in Idx(cfg) : \E col \in Idx(cfg) : board[row][col] = 0
    THEN FALSE
    ELSE validate(cfg, board).isValid

\* Mutation: empty cells are compared with the solution too.
isSolutionValidStrict(cfg, board, sol) ==
    ~ \E row \in Idx(cfg) : \E col \in Idx(cfg) :
          board[row][col] # sol[row][col]

isSolutionValid(cfg, board, sol) ==
    ~ \E row \in Idx(cfg) : \E col \in Idx(cfg) :
          board[row][col] # 0 /\ board[row][col] # sol[row][col]

\* No validator call is in the picture.
ValidatorIdle ==
    /\ grid = <<>>
    /\ key = <<>>
    /\ call = "none"
    /\ returned = "none"
    /\ results = <<>>

\* No generator call is in the picture.
GeneratorOff ==
    /\ pc = "off"
    /\ path = "none"
    /\ solution = <<>>
    /\ stack = <<>>
    /\ ctl = "none"
    /\ puzzle = <<>>
    /\ preset = <<>>
    /\ cellsToRemove = 0
    /\ removed = 0
    /\ visited = {}
    /\ boxes = 0
    /\ uniqueChecks = 0

\* No hasUniqueSolution call is being traced, and the game store is as
\* constructed: no board, no history, no selection.
CounterIdle ==
    /\ testBoard = <<>>
    /\ solutionCount = 0
    /\ cstack = <<>>
    /\ cctl = "none"
    /\ probes = 0
    /\ answer = <<>>
    /\ storeBoard = <<>>
    /\ history = <<>>
    /\ isCompleteFlag = FALSE
    /\ selectedCell = <<>>
    /\ emitted = "none"
    /\ moves = 0

(***************************************************************************)
(* SudokuGenerator.shuffleArray                                            *)
(* The shuffled order is revealed one element at a time.  On boards of at  *)
(* most FullShuffleCells cells the element that comes next is any element  *)
(* not yet taken (Fisher-Yates reaches every order).  On larger boards the *)
(* shuffled array is the original array rotated to start at one of its     *)
(* first MaxCarveChoices elements.                                         *)
(***************************************************************************)
\* Index of p in the array (its elements were pushed in row-major order).
Rank(cfg, array, p) ==
    Cardinality({ q \in array : RowMajor(cfg, q) < RowMajor(cfg, p) })

\* Mutation: the loop draws a position at random each time, with
\* repetition.
ShuffleNextAgain(cfg, array, taken) == array

\* The elements that can come next when taken were already iterated.
ShuffleNext(cfg, array, taken) ==
    IF cfg.size * cfg.size <= FullShuffleCells THEN array \ taken
    ELSE IF taken = {}
         THEN { p \in array : Rank(cfg, array, p) < MaxCarveChoices }
         ELSE { p \in array \ taken :
                  \E q \in taken :
                     Rank(cfg, array, p) =
                        (Rank(cfg, array, q) + 1) % Cardinality(array) }

\* The sets that can be the last n elements of the shuffled array.
ShuffleTail(cfg, array, n) ==
    IF cfg.size * cfg.size <= FullShuffleCells
    THEN { Z \in SUBSET array : Cardinality(Z) = n }
    ELSE { { p \in array :
               \E k \in 1 .. n :
                  Rank(cfg, array, p) =
                     (start + Cardinality(array) - k) % Cardinality(array) } :
           start \in { r \in 0 .. (MaxCarveChoices - 1) : r < Cardinality(array) } }

(***************************************************************************)
(* generateSudoku and the start of generatePuzzle / generateQuickPuzzle    *)
(***************************************************************************)
Init ==
    /\ config \in SudokuConfig
    /\ pc = "start"
    /\ path = "none"
    /\ solution = <<>>
    /\ stack = <<>>
    /\ ctl = "none"
    /\ puzzle = <<>>
    /\ preset = <<>>
    /\ cellsToRemove = 0
    /\ removed = 0
    /\ visited = {}
    /\ boxes = 0
    /\ uniqueChecks = 0
    /\ ValidatorIdle
    /\ CounterIdle

\* generateSudoku(config): new SudokuGenerator(config), then the dispatch on
\* the size; the chosen method allocates the zero grid and calls solveSudoku.
GenerateSudoku ==
    /\ pc = "start"
    /\ path' = IF config.size > QuickSizeLimit THEN "quick" ELSE "puzzle"
    /\ solution' = FilledGrid(config, 0)
    /\ pc' = "solve"
    /\ ctl' = "call"
    /\ UNCHANGED <<valVars, cntVars, storeVars>>
    /\ UNCHANGED <<uniqueChecks, config, stack, puzzle, preset,
                   cellsToRemove, removed, visited, boxes>>

\* new SudokuGenerator(config).generateQuickPuzzle(), the public method
\* called directly.
GenerateQuickPuzzle ==
    /\ pc = "start"
    /\ path' = "quick"
    /\ solution' = FilledGrid(config, 0)
    /\ pc' = "solve"
    /\ ctl' = "call"
    /\ UNCHANGED <<valVars, cntVars, storeVars>>
    /\ UNCHANGED <<uniqueChecks, config, stack, puzzle, preset,
                   cellsToRemove, removed, visited, boxes>>

(***************************************************************************)
(* SudokuGenerator.solveSudoku, one step per call, candidate and return    *)
(***************************************************************************)
\* A frame is a call that found an empty cell: [row, col, tried], tried the
\* candidates of the shuffled numbers already placed by this call.
Top == stack[Len(stack)]
Pop == SubSeq(stack, 1, Len(stack) - 1)

\* Mutation: the numbers array is one short, the value size is never tried.
CandidatesShort(cfg, board, frame) ==
    { num \in 1 .. (cfg.size - 1) :
        /\ num \notin frame.tried
        /\ isValid(cfg, board, frame.row, frame.col, num) }

\* The candidates of the frame's loop that pass isValid and were not placed
\* yet.  The cell holds 0 whenever the loop tests a candidate and the call
\* changes no other cell, so a candidate's isValid is the same all through
\* the loop: a candidate that fails it is skipped wherever the shuffle put it.
Candidates(cfg, board, frame) ==
    { num \in 1 .. cfg.size :
        /\ num \notin frame.tried
        /\ isValid(cfg, board, frame.row, frame.col, num) }

\* Entry of a call: the scan for the first empty cell.  The frame also
\* records the board as the call found it (entry), which the code does not
\* store: it is kept to compare the board at a return with.
SolveCall ==
    /\ pc = "solve"
    /\ ctl = "call"
    /\ LET e == FirstEmpty(config, solution)
       IN  IF e = <<>>
           THEN /\ ctl' = "retT"
                /\ stack' = stack
           ELSE /\ ctl' = "loop"
                /\ stack' = Append(stack, [row |-> e[1], col |-> e[2],
                                           tried |-> {}, entry |-> solution])
    /\ UNCHANGED <<valVars, cntVars, storeVars>>
    /\ UNCHANGED <<uniqueChecks, config, pc, path, solution, puzzle, preset,
                   cellsToRemove, removed, visited, boxes>>

\* The loop places the next legal candidate of the shuffled order and recurses.
SolveTry ==
    /\ pc = "solve"
    /\ ctl = "loop"
    /\ \E num \in Candidates(config, solution, Top) :
          /\ solution' = [solution EXCEPT ![Top.row][Top.col] = num]
          /\ stack' = [stack EXCEPT ![Len(stack)].tried = @ \cup {num}]
    /\ ctl' = "call"
    /\ UNCHANGED <<valVars, cntVars, storeVars>>
    /\ UNCHANGED <<uniqueChecks, config, pc, path, puzzle, preset,
                   cellsToRemove, removed, visited, boxes>>

\* The loop ends with no candidate left: return false.
SolveExhaust ==
    /\ pc = "solve"
    /\ ctl = "loop"
    /\ Candidates(config, solution, Top) = {}
    /\ stack' = Pop
    /\ ctl' = "retF"
    /\ UNCHANGED <<valVars, cntVars, storeVars>>
    /\ UNCHANGED <<uniqueChecks, config, pc, path, solution, puzzle, preset,
                   cellsToRemove, removed, visited, boxes>>

\* Mutation: the candidate stays on the board after the failed recursion.
resetCellKeeps(board, row, col) == board

\* board[row][col] = 0 after a recursive call that returned false.
resetCell(board, row, col) == [board EXCEPT ![row][col] = 0]

\* The recursive call returns into the caller's loop: true is passed up,
\* false resets the cell and goes on with the loop.
SolveReturn ==
    /\ pc = "solve"
    /\ ctl \in {"retT", "retF"}
    /\ stack # <<>>
    /\ IF ctl = "retT"
       THEN /\ stack' = Pop
            /\ ctl' = "retT"
            /\ solution' = solution
       ELSE /\ solution' = resetCell(solution, Top.row, Top.col)
            /\ ctl' = "loop"
            /\ stack' = stack
    /\ UNCHANGED <<valVars, cntVars, storeVars>>
    /\ UNCHANGED <<uniqueChecks, config, pc, path, puzzle, preset,
                   cellsToRemove, removed, visited, boxes>>

(***************************************************************************)
(* generatePuzzle after the solve                                          *)
(***************************************************************************)
RemovePct(difficulty) ==
    CASE difficulty = "easy" -> RemoveEasyPct
      [] difficulty = "medium" -> RemoveMediumPct
      [] difficulty = "hard" -> RemoveHardPct
      [] OTHER -> RemoveDefaultPct

\* cellsToRemove = Math.floor(totalCells * ratio)
Quota(cfg) == FloorPct(cfg.size * cfg.size, RemovePct(cfg.difficulty))

KeepPct(difficulty) ==
    CASE difficulty = "easy" -> KeepEasyPct
      [] difficulty = "medium" -> KeepMediumPct
      [] difficulty = "hard" -> KeepHardPct
      [] OTHER -> KeepDefaultPct

\* Mutation: Math.floor in place of Math.ceil.
KeepPerBoxFloor(cfg) ==
    FloorPct(cfg.subRows * cfg.subCols, KeepPct(cfg.difficulty))

\* keepPerBox = Math.ceil(cellsPerBox * ratio)
KeepPerBox(cfg) == CeilPct(cfg.subRows * cfg.subCols, KeepPct(cfg.difficulty))

\* The outermost solveSudoku call has returned (its result is not read):
\* copy the grid, fill the mask, compute the quota.
SolveFinish ==
    /\ pc = "solve"
    /\ ctl \in {"retT", "retF"}
    /\ stack = <<>>
    /\ puzzle' = solution
    /\ preset' = FilledGrid(config, TRUE)
    /\ cellsToRemove' = IF path = "puzzle" THEN Quota(config) ELSE 0
    /\ pc' = IF path = "puzzle" THEN "carve" ELSE "quick"
    /\ UNCHANGED <<valVars, cntVars, storeVars>>
    /\ UNCHANGED <<uniqueChecks, config, path, solution, stack, ctl, removed,
                   visited, boxes>>

\* Mutation: the loop breaks only once the quota is passed.
loopBreakAfter(rem, quota) == rem > quota

\* if (removed >= cellsToRemove) break
loopBreak(rem, quota) == rem >= quota

\* Mutation: the difficulty is not looked at, easy puzzles are checked too.
checksUniqueEasyToo(cfg) == cfg.size <= UniqueSizeLimit

\* size <= 9 && difficulty !== 'easy'
checksUnique(cfg) == cfg.size <= UniqueSizeLimit /\ cfg.difficulty # "easy"

\* Mutation: the restore puts the value back but not the mask.
carveCellKeepsMask(cfg, pz, ps, rem, row, col) ==
    LET zeroed == [pz EXCEPT ![row][col] = 0]
        cleared == [ps EXCEPT ![row][col] = FALSE]
    IN  IF checksUnique(cfg) /\ ~hasUniqueSolution(cfg, zeroed)
        THEN [puzzle |-> pz, preset |-> cleared, removed |-> rem]
        ELSE [puzzle |-> zeroed, preset |-> cleared, removed |-> rem + 1]

\* One iteration of the carving loop at [row, col]: zero the cell and clear
\* its mask; restore both when the uniqueness check fails.
carveCell(cfg, pz, ps, rem, row, col) ==
    LET zeroed == [pz EXCEPT ![row][col] = 0]
        cleared == [ps EXCEPT ![row][col] = FALSE]
    IN  IF checksUnique(cfg) /\ ~hasUniqueSolution(cfg, zeroed)
        THEN [puzzle |-> pz, preset |-> ps, removed |-> rem]
        ELSE [puzzle |-> zeroed, preset |-> cleared, removed |-> rem + 1]

\* Mutation: the puzzle shares its rows with the solution.
mapRowsShared(original, copy) == copy

\* solution.map(row => [...row]) made the puzzle of new rows: what the
\* original grid holds once the copy has been written to.
mapRows(original, copy) == original

CarveStep ==
    /\ pc = "carve"
    /\ ~loopBreak(removed, cellsToRemove)
    /\ \E pos \in ShuffleNext(config, Positions(config), visited) :
        \E after \in {carveCell(config, puzzle, preset, removed, pos[1], pos[2])} :
              /\ puzzle' = after.puzzle
              /\ preset' = after.preset
              /\ removed' = after.removed
              /\ visited' = visited \cup {pos}
              /\ solution' = mapRows(solution, after.puzzle)
    /\ uniqueChecks' = IF checksUnique(config) THEN uniqueChecks + 1
                                                ELSE uniqueChecks
    /\ UNCHANGED <<valVars, cntVars, storeVars>>
    /\ UNCHANGED <<config, pc, path, stack, ctl, cellsToRemove, boxes>>

\* The loop ends (quota met or positions exhausted) and the method returns
\* {puzzle, solution, preset}.
CarveReturn ==
    /\ pc = "carve"
    /\ loopBreak(removed, cellsToRemove) \/ visited = Positions(config)
    /\ pc' = "done"
    /\ UNCHANGED <<valVars, cntVars, storeVars>>
    /\ UNCHANGED <<uniqueChecks, config, path, solution, stack, ctl, puzzle,
                   preset, cellsToRemove, removed, visited, boxes>>

(***************************************************************************)
(* generateQuickPuzzle after the solve                                     *)
(***************************************************************************)
\* Iterations of "for (x = 0; x < size; x += step)".
Steps(size, step) == (size + step - 1) \div step

BoxCount(cfg) == Steps(cfg.size, cfg.subRows) * Steps(cfg.size, cfg.subCols)

\* The positions collected for the k-th sub-region of the traversal.
BoxPositions(cfg, k) ==
    LET boxRow == (k \div Steps(cfg.size, cfg.subCols)) * cfg.subRows
        boxCol == (k % Steps(cfg.size, cfg.subCols)) * cfg.subCols
    IN  { <<boxRow + i, boxCol + j>> :
            i \in 0 .. (cfg.subRows - 1), j \in 0 .. (cfg.subCols - 1) }

\* for (i = keepPerBox; i < positions.length; i++): how many are zeroed.
ZeroedPerBox(cfg) ==
    IF cfg.subRows * cfg.subCols > KeepPerBox(cfg)
    THEN cfg.subRows * cfg.subCols - KeepPerBox(cfg)
    ELSE 0

\* One sub-region: shuffle its positions, zero all but the first keepPerBox.
QuickBox ==
    /\ pc = "quick"
    /\ boxes < BoxCount(config)
    /\ \E Z \in ShuffleTail(config, BoxPositions(config, boxes), ZeroedPerBox(config)) :
          /\ puzzle' = [r \in Idx(config) |-> [c \in Idx(config) |->
                          IF <<r, c>> \in Z THEN 0 ELSE puzzle[r][c]]]
          /\ preset' = [r \in Idx(config) |-> [c \in Idx(config) |->
                          IF <<r, c>> \in Z THEN FALSE ELSE preset[r][c]]]
    /\ solution' = mapRows(solution, puzzle')
    /\ boxes' = boxes + 1
    /\ UNCHANGED <<valVars, cntVars, storeVars>>
    /\ UNCHANGED <<uniqueChecks, config, pc, path, stack, ctl, cellsToRemove,
                   removed, visited>>

QuickReturn ==
    /\ pc = "quick"
    /\ boxes = BoxCount(config)
    /\ pc' = "done"
    /\ UNCHANGED <<valVars, cntVars, storeVars>>
    /\ UNCHANGED <<uniqueChecks, config, path, solution, stack, ctl, puzzle,
                   preset, cellsToRemove, removed, visited, boxes>>

Next ==
    \/ GenerateSudoku
    \/ GenerateQuickPuzzle
    \/ SolveCall
    \/ SolveTry
    \/ SolveExhaust
    \/ SolveReturn
    \/ SolveFinish
    \/ CarveStep
    \/ CarveReturn
    \/ QuickBox
    \/ QuickReturn

Spec == Init /\ [][Next]_vars

\* The generator up to the return of the outermost solveSudoku call.  The
\* code is one synchronous call chain: a step that can be taken is taken.
NextSolve ==
    \/ GenerateSudoku
    \/ GenerateQuickPuzzle
    \/ SolveCall
    \/ SolveTry
    \/ SolveExhaust
    \/ SolveReturn
    \/ SolveFinish

SpecSolve == Init /\ [][NextSolve]_vars /\ WF_vars(NextSolve)

(***************************************************************************)
(* The validator on its own: a caller constructs a SudokuValidator, holds  *)
(* a grid and a solution, and calls the three methods in any order.        *)
(***************************************************************************)
\* A solved grid of the shape (rows shifted by sub-region).
PatternGrid(cfg) ==
    [r \in Idx(cfg) |-> [c \in Idx(cfg) |->
        (((r % cfg.subRows) * cfg.subCols + (r \div cfg.subRows) + c) % cfg.size) + 1]]

\* The grid base with the cells of f overwritten.
Overwrite(cfg, base, f) ==
    [r \in Idx(cfg) |-> [c \in Idx(cfg) |->
        IF <<r, c>> \in DOMAIN f THEN f[<<r, c>>] ELSE base[r][c]]]

\* The grid of the caller: the empty grid or a solved grid with at most
\* MaxEdits cells changed.  The solution is chosen when isSolutionValid is
\* called.
InitValidator ==
    /\ config \in { cfg \in SudokuConfig : cfg.difficulty = "medium" }
    /\ \E base \in { FilledGrid(config, 0), PatternGrid(config) } :
       \E S \in { T \in SUBSET Positions(config) : Cardinality(T) <= MaxEdits } :
       \E f \in [S -> 0 .. config.size] :
          /\ \A p \in S : f[p] # base[p[1]][p[2]]
          /\ grid = Overwrite(config, base, f)
    /\ key = <<>>
    /\ call = "none"
    /\ returned = "none"
    /\ pc = "off"
    /\ path = "none"
    /\ solution = <<>>
    /\ stack = <<>>
    /\ ctl = "none"
    /\ puzzle = <<>>
    /\ preset = <<>>
    /\ cellsToRemove = 0
    /\ removed = 0
    /\ visited = {}
    /\ boxes = 0
    /\ uniqueChecks = 0
    /\ results = <<>>
    /\ CounterIdle

\* Each behaviour is one call on one grid: the methods read the grid and
\* the config and keep nothing between calls.
Validate ==
    /\ pc = "off"
    /\ call = "none"
    /\ call' = "validate"
    /\ returned' = validate(config, grid)
    /\ UNCHANGED <<grid, key, results>>
    /\ UNCHANGED <<genVars, cntVars, storeVars>>

IsComplete ==
    /\ pc = "off"
    /\ call = "none"
    /\ call' = "isComplete"
    /\ returned' = isComplete(config, grid)
    /\ UNCHANGED <<grid, key, results>>
    /\ UNCHANGED <<genVars, cntVars, storeVars>>

\* The solution argument is a solved grid or the (unsolved) grid of ones.
IsSolutionValid ==
    /\ pc = "off"
    /\ call = "none"
    /\ call' = "isSolutionValid"
    /\ \E sol \in { PatternGrid(config), FilledGrid(config, 1) } :
          /\ key' = sol
          /\ returned' = isSolutionValid(config, grid, sol)
    /\ UNCHANGED <<grid, results>>
    /\ UNCHANGED <<genVars, cntVars, storeVars>>

NextValidator ==
    \/ Validate
    \/ IsComplete
    \/ IsSolutionValid

SpecValidator == InitValidator /\ [][NextValidator]_vars

(***************************************************************************)
(* One SudokuValidator called over and over on one grid: up to MaxCalls    *)
(* calls of the three methods in any order.  The grid is the empty grid or *)
(* a solved grid with at most MaxEdits cells of its first row changed.     *)
(***************************************************************************)
InitCalls ==
    /\ config \in { cfg \in SudokuConfig : cfg.difficulty = "medium" }
    /\ \E base \in { FilledGrid(config, 0), PatternGrid(config) } :
       \E S \in { T \in SUBSET { p \in Positions(config) : p[1] = 0 } :
                    Cardinality(T) <= MaxEdits } :
       \E f \in [S -> 0 .. config.size] :
          /\ \A p \in S : f[p] # base[p[1]][p[2]]
          /\ grid = Overwrite(config, base, f)
    /\ key = <<>>
    /\ call = "none"
    /\ returned = "none"
    /\ results = <<>>
    /\ GeneratorOff
    /\ CounterIdle

\* validator.validate(grid)
CallValidate ==
    /\ pc = "off"
    /\ Len(results) < MaxCalls
    /\ call' = "validate"
    /\ \E res \in { validate(config, grid) } :
          /\ returned' = res
          /\ results' = Append(results, [method |-> "validate", value |-> res])
    /\ UNCHANGED <<grid, key>>
    /\ UNCHANGED <<genVars, cntVars, storeVars>>

\* validator.isComplete(grid)
CallIsComplete ==
    /\ pc = "off"
    /\ Len(results) < MaxCalls
    /\ call' = "isComplete"
    /\ \E res \in { isComplete(config, grid) } :
          /\ returned' = res
          /\ results' = Append(results, [method |-> "isComplete", value |-> res])
    /\ UNCHANGED <<grid, key>>
    /\ UNCHANGED <<genVars, cntVars, storeVars>>

\* validator.isSolutionValid(grid, sol)
CallIsSolutionValid ==
    /\ pc = "off"
    /\ Len(results) < MaxCalls
    /\ call' = "isSolutionValid"
    /\ \E sol \in { PatternGrid(config), FilledGrid(config, 1) } :
       \E res \in { isSolutionValid(config, grid, sol) } :
          /\ key' = sol
          /\ returned' = res
          /\ results' = Append(results,
                               [method |-> "isSolutionValid", value |-> res])
    /\ UNCHANGED grid
    /\ UNCHANGED <<genVars, cntVars, storeVars>>

NextCalls ==
    \/ CallValidate
    \/ CallIsComplete
    \/ CallIsSolutionValid

SpecCalls == InitCalls /\ [][NextCalls]_vars


(***************************************************************************)
(* SudokuGenerator.isValid called on its own: one call with a cell and a   *)
(* value on a grid of InitCalls.                                           *)
(***************************************************************************)
IsValidCall ==
    /\ pc = "off"
    /\ call = "none"
    /\ call' = "isValid"
    /\ \E row \in Idx(config), col \in Idx(config), num \in 1 .. config.size :
          /\ key' = <<row, col, num>>
          /\ returned' = isValid(config, grid, row, col, num)
    /\ UNCHANGED <<grid, results>>
    /\ UNCHANGED <<genVars, cntVars, storeVars>>

NextPoint == IsValidCall

SpecPoint == InitCalls /\ [][NextPoint]_vars

(***************************************************************************)
(* SudokuGenerator.hasUniqueSolution step by step: one step per entry of   *)
(* countSolutions, per candidate of its loop and per return.  The board    *)
(* handed over is a solved grid, or a solved grid with the value of its    *)
(* first cell repeated in the second, with at most MaxHoles cells of its   *)
(* first band of sub-regions emptied.                                      *)
(***************************************************************************)
\* PatternGrid with the value of [0, 0] written to [0, 1] as well.
RepeatGrid(cfg) == [PatternGrid(cfg) EXCEPT ![0][1] = PatternGrid(cfg)[0][0]]

InitCount ==
    /\ config \in { cfg \in SudokuConfig : cfg.difficulty = "medium" }
    /\ \E base \in { PatternGrid(config), RepeatGrid(config) } :
       \E Z \in { T \in SUBSET { p \in Positions(config) : p[1] < config.subRows } :
                    Cardinality(T) <= MaxHoles } :
          puzzle = [r \in Idx(config) |-> [c \in Idx(config) |->
                      IF <<r, c>> \in Z THEN 0 ELSE base[r][c]]]
    /\ pc = "caller"
    /\ path = "none"
    /\ solution = <<>>
    /\ stack = <<>>
    /\ ctl = "none"
    /\ preset = <<>>
    /\ cellsToRemove = 0
    /\ removed = 0
    /\ visited = {}
    /\ boxes = 0
    /\ uniqueChecks = 0
    /\ ValidatorIdle
    /\ CounterIdle

\* Mutation: testBoard is the board of the caller, not a copy.
mapBoardShared(board, copy) == copy

\* board.map(row => [...row]) made testBoard of new rows: what the board of
\* the caller holds once testBoard has been written to.
mapBoard(board, copy) == board

\* Entry of hasUniqueSolution: the copy, the counter, the outermost call.
HasUniqueSolution ==
    /\ pc = "caller"
    /\ pc' = "count"
    /\ testBoard' = puzzle
    /\ solutionCount' = 0
    /\ cstack' = <<>>
    /\ cctl' = "call"
    /\ UNCHANGED <<probes, answer>>
    /\ UNCHANGED <<valVars, storeVars>>
    /\ UNCHANGED <<config, path, solution, stack, ctl, puzzle, preset,
                   cellsToRemove, removed, visited, boxes, uniqueChecks>>

\* Entry of a countSolutions call: the early exit, the scan for the first
\* empty cell, the increment when there is none.
CountCall ==
    /\ pc = "count"
    /\ cctl = "call"
    /\ IF aborted(solutionCount)
       THEN /\ cctl' = "ret"
            /\ UNCHANGED <<solutionCount, cstack>>
       ELSE LET e == FirstEmpty(config, testBoard)
            IN  IF e = <<>>
                THEN /\ solutionCount' = solutionCount + 1
                     /\ cctl' = "ret"
                     /\ UNCHANGED cstack
                ELSE /\ cstack' = Append(cstack,
                                         [row |-> e[1], col |-> e[2], num |-> 1])
                     /\ cctl' = "loop"
                     /\ UNCHANGED solutionCount
    /\ UNCHANGED <<testBoard, probes, answer>>
    /\ UNCHANGED <<valVars, storeVars>>
    /\ UNCHANGED genVars

\* One iteration of "for (num = 1; num <= size; num++)": the isValid test
\* and, when it passes, the placement and the recursive call.
CountTry ==
    /\ pc = "count"
    /\ cctl = "loop"
    /\ LET f == cstack[Len(cstack)]
       IN  /\ f.num <= config.size
           /\ probes' = IF solutionCount > 1 THEN probes + 1 ELSE probes
           /\ IF isValid(config, testBoard, f.row, f.col, f.num)
              THEN /\ testBoard' = [testBoard EXCEPT ![f.row][f.col] = f.num]
                   /\ cctl' = "call"
                   /\ UNCHANGED cstack
              ELSE /\ cstack' = [cstack EXCEPT ![Len(cstack)].num = f.num + 1]
                   /\ UNCHANGED <<testBoard, cctl>>
    /\ puzzle' = mapBoard(puzzle, testBoard')
    /\ UNCHANGED <<solutionCount, answer>>
    /\ UNCHANGED <<valVars, storeVars>>
    /\ UNCHANGED <<config, pc, path, solution, stack, ctl, preset,
                   cellsToRemove, removed, visited, boxes, uniqueChecks>>

\* The loop is over: "return" after the for loop.
CountLoopEnd ==
    /\ pc = "count"
    /\ cctl = "loop"
    /\ cstack[Len(cstack)].num > config.size
    /\ cstack' = SubSeq(cstack, 1, Len(cstack) - 1)
    /\ cctl' = "ret"
    /\ UNCHANGED <<testBoard, solutionCount, probes, answer>>
    /\ UNCHANGED <<valVars, storeVars>>
    /\ UNCHANGED genVars

\* A recursive call returned: board[row][col] = 0 and the next candidate.
CountReturn ==
    /\ pc = "count"
    /\ cctl = "ret"
    /\ cstack # <<>>
    /\ LET f == cstack[Len(cstack)]
       IN  /\ testBoard' = [testBoard EXCEPT ![f.row][f.col] = 0]
           /\ cstack' = [cstack EXCEPT ![Len(cstack)].num = f.num + 1]
    /\ cctl' = "loop"
    /\ puzzle' = mapBoard(puzzle, testBoard')
    /\ UNCHANGED <<solutionCount, probes, answer>>
    /\ UNCHANGED <<valVars, storeVars>>
    /\ UNCHANGED <<config, pc, path, solution, stack, ctl, preset,
                   cellsToRemove, removed, visited, boxes, uniqueChecks>>

\* The outermost call returned: return solutionCount === 1.
CountFinish ==
    /\ pc = "count"
    /\ cctl = "ret"
    /\ cstack = <<>>
    /\ answer' = <<solutionCount = 1>>
    /\ pc' = "counted"
    /\ UNCHANGED <<testBoard, solutionCount, cstack, cctl, probes>>
    /\ UNCHANGED <<valVars, storeVars>>
    /\ UNCHANGED <<config, path, solution, stack, ctl, puzzle, preset,
                   cellsToRemove, removed, visited, boxes, uniqueChecks>>

NextCount ==
    \/ HasUniqueSolution
    \/ CountCall
    \/ CountTry
    \/ CountLoopEnd
    \/ CountReturn
    \/ CountFinish

SpecCount == InitCount /\ [][NextCount]_vars

(***************************************************************************)
(* Calls with a malformed shape.  Neither class checks the config or the   *)
(* dimensions of a grid: the constructors store the config (generator      *)
(* 13-16, validator 6-8) and the methods index the grid by config.size.    *)
(* The shapes below keep every index the code computes inside the grid, so *)
(* no read meets an undefined row; a read that does is outside this        *)
(* specification.                                                          *)
(***************************************************************************)
MalformedShapes ==
    { [size |-> 2, subRows |-> 1, subCols |-> 1],
      [size |-> 2, subRows |-> 2, subCols |-> 2],
      [size |-> 3, subRows |-> 1, subCols |-> 1],
      [size |-> 0, subRows |-> 0, subCols |-> 0] }

WithDifficulty(shapes, ds) ==
    { [size |-> s.size, subRows |-> s.subRows, subCols |-> s.subCols,
       difficulty |-> d] : s \in shapes, d \in ds }

\* Grids of n rows and n columns: empty, all ones, and a Latin square.
CallerGrids(n) ==
    { [r \in 0 .. (n - 1) |-> [c \in 0 .. (n - 1) |-> 0]],
      [r \in 0 .. (n - 1) |-> [c \in 0 .. (n - 1) |-> 1]],
      [r \in 0 .. (n - 1) |-> [c \in 0 .. (n - 1) |-> ((r + c) % n) + 1]] }

\* generateSudoku(config) with a malformed shape, or a validator built
\* with a malformed shape and handed a grid of its size, or a validator of
\* a well-formed shape handed a grid one row and one column larger.
InitMalformed ==
    /\ \/ /\ config \in WithDifficulty(MalformedShapes, Difficulty)
          /\ pc = "start"
          /\ grid = <<>>
       \/ /\ config \in WithDifficulty(MalformedShapes, {"medium"})
          /\ pc = "off"
          /\ grid \in CallerGrids(config.size)
       \/ /\ config \in WithDifficulty({ s \in Shapes : s.size = 2 }, {"medium"})
          /\ pc = "off"
          /\ grid \in CallerGrids(config.size + 1)
    /\ path = "none"
    /\ solution = <<>>
    /\ stack = <<>>
    /\ ctl = "none"
    /\ puzzle = <<>>
    /\ preset = <<>>
    /\ cellsToRemove = 0
    /\ removed = 0
    /\ visited = {}
    /\ boxes = 0
    /\ uniqueChecks = 0
    /\ key = <<>>
    /\ call = "none"
    /\ returned = "none"
    /\ results = <<>>
    /\ CounterIdle

NextMalformed ==
    \/ GenerateSudoku
    \/ SolveCall
    \/ SolveTry
    \/ SolveExhaust
    \/ SolveReturn
    \/ SolveFinish
    \/ CarveStep
    \/ CarveReturn
    \/ Validate
    \/ IsComplete
    \/ IsSolutionValid

SpecMalformed == InitMalformed /\ [][NextMalformed]_vars

(***************************************************************************)
(* The placement rules, stated on their own                                *)
(***************************************************************************)
Cell(g, p) == g[p[1]][p[2]]

SameRow(p, q) == p[1] = q[1]

\* The sub-region of p.
BoxOf(cfg, p) ==
    LET r0 == (p[1] \div cfg.subRows) * cfg.subRows
        c0 == (p[2] \div cfg.subCols) * cfg.subCols
    IN  { <<r, c>> : r \in r0 .. (r0 + cfg.subRows - 1),
                     c \in c0 .. (c0 + cfg.subCols - 1) }

Peers(cfg, p) ==
    ({ <<p[1], c>> : c \in Idx(cfg) } \cup { <<r, p[2]>> : r \in Idx(cfg) }
        \cup BoxOf(cfg, p)) \ {p}

RowUnits(cfg) == { { p \in Positions(cfg) : p[1] = r } : r \in Idx(cfg) }
ColUnits(cfg) == { { p \in Positions(cfg) : p[2] = c } : c \in Idx(cfg) }
BoxUnits(cfg) == { BoxOf(cfg, p) : p \in Positions(cfg) }
Units(cfg) == RowUnits(cfg) \cup ColUnits(cfg) \cup BoxUnits(cfg)

NoZero(cfg, g) == \A p \in Positions(cfg) : Cell(g, p) # 0
ZeroCount(cfg, g) == Cardinality({ p \in Positions(cfg) : Cell(g, p) = 0 })

\* Every row, column and sub-region holds each value 1..size exactly once.
Solved(cfg, g) ==
    \A U \in Units(cfg) : \A v \in 1 .. cfg.size :
        Cardinality({ p \in U : Cell(g, p) = v }) = 1

\* No two distinct cells of one row, column or sub-region hold the same
\* non-zero value.
NoDuplicate(cfg, g) ==
    \A p \in Positions(cfg) : \A q \in Peers(cfg, p) :
        Cell(g, p) # 0 => Cell(g, p) # Cell(g, q)

\* All completions of g that satisfy the rules, by exhaustive search.
RECURSIVE Completions(_, _)
Completions(cfg, g) ==
    LET E == { p \in Positions(cfg) : Cell(g, p) = 0 }
    IN  IF E = {}
        THEN IF Solved(cfg, g) THEN {g} ELSE {}
        ELSE LET p == CHOOSE e \in E : TRUE
                 Free == { v \in 1 .. cfg.size :
                             \A q \in Peers(cfg, p) : Cell(g, q) # v }
             IN  UNION { Completions(cfg, [g EXCEPT ![p[1]][p[2]] = v]) : v \in Free }

\* A position was taken from the shuffled array and its value put back.
Restored == \E p \in visited : Cell(preset, p)

(***************************************************************************)
(* The game store (useGameStore) and the handlers of GameBoard and         *)
(* GameControls that drive it.  The store's config, solution and preset    *)
(* are the variables config, solution and preset; puzzle is the grid       *)
(* setPuzzleData was called with, as it was at the call.  pc is "new"      *)
(* for the store as constructed, "store" after initGame and "play" after   *)
(* setPuzzleData.  call and returned log the last store action and the     *)
(* kind of its arguments; emitted is the conflict event the last handler   *)
(* call emitted (or "none"); moves counts the accepted setCell calls less  *)
(* the undos that took an entry, since the last initGame or setPuzzleData. *)
(***************************************************************************)
DEFAULT_CONFIG ==
    [size |-> 9, subRows |-> 3, subCols |-> 3, difficulty |-> "medium"]

RECURSIVE boardRowLoop(_, _, _, _, _, _)
\* The loop over the columns of one row of the board.
boardRowLoop(cfg, board, row, col, seen, conflicts) ==
    IF col >= cfg.size THEN conflicts
    ELSE LET value == board[row][col]
         IN  IF value # 0
             THEN IF value \in seen
                  THEN boardRowLoop(cfg, board, row, col + 1, seen,
                           Append(conflicts, [row |-> row, col |-> col,
                                              value |-> value, type |-> "row"]))
                  ELSE boardRowLoop(cfg, board, row, col + 1, seen \cup {value},
                           conflicts)
             ELSE boardRowLoop(cfg, board, row, col + 1, seen, conflicts)

RECURSIVE boardRows(_, _, _, _)
boardRows(cfg, board, row, conflicts) ==
    IF row >= cfg.size THEN conflicts
    ELSE boardRows(cfg, board, row + 1,
                   boardRowLoop(cfg, board, row, 0, {}, conflicts))

RECURSIVE boardColLoop(_, _, _, _, _, _)
\* Mutation: the loop over a column reads the row of the same index.
boardColLoopReadsRow(cfg, board, col, row, seen, conflicts) ==
    IF row >= cfg.size THEN conflicts
    ELSE LET value == board[col][row]
         IN  IF value # 0
             THEN IF value \in seen
                  THEN boardColLoop(cfg, board, col, row + 1, seen,
                           Append(conflicts, [row |-> col, col |-> row,
                                              value |-> value, type |-> "column"]))
                  ELSE boardColLoop(cfg, board, col, row + 1, seen \cup {value},
                           conflicts)
             ELSE boardColLoop(cfg, board, col, row + 1, seen, conflicts)

\* The loop over the rows of one column of the board.
boardColLoop(cfg, board, col, row, seen, conflicts) ==
    IF row >= cfg.size THEN conflicts
    ELSE LET value == board[row][col]
         IN  IF value # 0
             THEN IF value \in seen
                  THEN boardColLoop(cfg, board, col, row + 1, seen,
                           Append(conflicts, [row |-> row, col |-> col,
                                              value |-> value, type |-> "column"]))
                  ELSE boardColLoop(cfg, board, col, row + 1, seen \cup {value},
                           conflicts)
             ELSE boardColLoop(cfg, board, col, row + 1, seen, conflicts)

RECURSIVE boardCols(_, _, _, _)
boardCols(cfg, board, col, conflicts) ==
    IF col >= cfg.size THEN conflicts
    ELSE boardCols(cfg, board, col + 1,
                   boardColLoop(cfg, board, col, 0, {}, conflicts))

\* The loops over i and j inside the sub-region at (boxRow, boxCol).
RECURSIVE boardBoxLoop(_, _, _, _, _, _, _, _)
boardBoxLoop(cfg, board, boxRow, boxCol, i, j, seen, conflicts) ==
    IF i >= cfg.subRows THEN conflicts
    ELSE IF j >= cfg.subCols
         THEN boardBoxLoop(cfg, board, boxRow, boxCol, i + 1, 0, seen, conflicts)
    ELSE LET row == boxRow + i
             col == boxCol + j
             value == board[row][col]
         IN  IF value # 0
             THEN IF value \in seen
                  THEN boardBoxLoop(cfg, board, boxRow, boxCol, i, j + 1, seen,
                           Append(conflicts, [row |-> row, col |-> col,
                                              value |-> value, type |-> "box"]))
                  ELSE boardBoxLoop(cfg, board, boxRow, boxCol, i, j + 1,
                                    seen \cup {value}, conflicts)
             ELSE boardBoxLoop(cfg, board, boxRow, boxCol, i, j + 1, seen,
                               conflicts)

RECURSIVE boardBoxes(_, _, _, _, _)
boardBoxes(cfg, board, boxRow, boxCol, conflicts) ==
    IF boxRow >= cfg.size THEN conflicts
    ELSE IF boxCol >= cfg.size
         THEN boardBoxes(cfg, board, boxRow + cfg.subRows, 0, conflicts)
         ELSE boardBoxes(cfg, board, boxRow, boxCol + cfg.subCols,
                         boardBoxLoop(cfg, board, boxRow, boxCol, 0, 0, {},
                                      conflicts))

\* validateBoard of the store, on its config and board.  "conflicts:
\* undefined" is a record without the field.
validateBoard(cfg, board) ==
    LET conflicts ==
            boardBoxes(cfg, board, 0, 0,
                boardCols(cfg, board, 0, boardRows(cfg, board, 0, <<>>)))
    IN  IF Len(conflicts) > 0
        THEN [isValid |-> Len(conflicts) = 0, conflicts |-> conflicts]
        ELSE [isValid |-> Len(conflicts) = 0]

\* The value checkComplete leaves in isComplete: false at the first zero
\* cell of the scan, else what validateBoard reports.
checkComplete(cfg, board) ==
    IF FirstEmpty(cfg, board) # <<>>
    THEN FALSE
    ELSE validateBoard(cfg, board).isValid

\* Mutation: the history entry holds the board array itself, not a copy, so
\* it shows the write that follows the push.
pushHistoryShared(entries, board, written) ==
    Append(entries, [board |-> written])

\* The history once setCell has pushed and then written the cell.  The
\* entry is a JSON round trip of the board, a copy the write does not reach;
\* the timestamp is left out.
pushHistory(entries, board, written) ==
    Append(entries, [board |-> board])

\* Mutation: no check of the preset mask.
setCellNoPresetCheck(cfg, st, row, col, value) ==
    IF row < 0 \/ row >= cfg.size \/ col < 0 \/ col >= cfg.size
    THEN st
    ELSE LET written == [st.board EXCEPT ![row][col] = value]
         IN  [st EXCEPT !.history = pushHistory(st.history, st.board, written),
                        !.board = written,
                        !.isComplete = checkComplete(cfg, written)]

\* Mutation: the snapshot is pushed before the checks.
setCellPushesFirst(cfg, st, row, col, value) ==
    IF row < 0 \/ row >= cfg.size \/ col < 0 \/ col >= cfg.size
    THEN [st EXCEPT !.history = pushHistory(st.history, st.board, st.board)]
    ELSE IF st.preset[row][col]
    THEN [st EXCEPT !.history = pushHistory(st.history, st.board, st.board)]
    ELSE LET written == [st.board EXCEPT ![row][col] = value]
         IN  [st EXCEPT !.history = pushHistory(st.history, st.board, written),
                        !.board = written,
                        !.isComplete = checkComplete(cfg, written)]

\* setCell on the store st = [board, preset, history, isComplete]: the two
\* early returns, then the push, the write and checkComplete.
setCell(cfg, st, row, col, value) ==
    IF row < 0 \/ row >= cfg.size \/ col < 0 \/ col >= cfg.size
    THEN st
    ELSE IF st.preset[row][col]
    THEN st
    ELSE LET written == [st.board EXCEPT ![row][col] = value]
         IN  [st EXCEPT !.history = pushHistory(st.history, st.board, written),
                        !.board = written,
                        !.isComplete = checkComplete(cfg, written)]

\* undo: pop, and take the popped board if there was an entry.
undo(st) ==
    IF Len(st.history) = 0
    THEN st
    ELSE [st EXCEPT !.board = st.history[Len(st.history)].board,
                    !.history = SubSeq(st.history, 1, Len(st.history) - 1)]

\* The store fields the actions below read and write.
Store ==
    [board |-> storeBoard, preset |-> preset, history |-> history,
     isComplete |-> isCompleteFlag]

\* The configs initGame is called with: startNewGame passes 'medium'.
StoreConfigs == { cfg \in SudokuConfig : cfg.difficulty = "medium" }

\* A result of generateSudoku for the store's shape and the difficulty
\* easy: the solved PatternGrid with its first Quota cells (row-major)
\* carved, the puzzle generatePuzzle returns when the shuffle gives these
\* cells first (an easy puzzle is carved without the uniqueness check).
PuzzleData(cfg) ==
    LET gen == [cfg EXCEPT !.difficulty = "easy"]
        full == PatternGrid(cfg)
        carved(p) == RowMajor(cfg, p) < Quota(gen)
    IN  [puzzle |-> [r \in Idx(cfg) |-> [c \in Idx(cfg) |->
                        IF carved(<<r, c>>) THEN 0 ELSE full[r][c]]],
         solution |-> full,
         preset |-> [r \in Idx(cfg) |-> [c \in Idx(cfg) |-> ~carved(<<r, c>>)]]]

\* The cells the player's actions go to: the first row of the first
\* sub-region, and the first column down to the first cell of the
\* sub-region below.
TouchCells(cfg) ==
    { p \in Positions(cfg) :
        \/ p[1] = 0 /\ p[2] < cfg.subCols
        \/ p[2] = 0 /\ p[1] <= cfg.subRows }

\* The arguments of the setCell calls: every value 0..size at each of the
\* cells above, and the four cells next to the corner cells that are one
\* index off the board.
SetCellArgs(cfg) ==
    { <<p[1], p[2], v>> : p \in TouchCells(cfg), v \in 0 .. cfg.size }
        \cup { <<0 - 1, 0, cfg.size>>, <<cfg.size, 0, cfg.size>>,
               <<0, 0 - 1, cfg.size>>, <<0, cfg.size, cfg.size>> }

\* The state of the store when defineStore has run.
InitStore ==
    /\ config = DEFAULT_CONFIG
    /\ pc = "new"
    /\ path = "none"
    /\ solution = <<>>
    /\ stack = <<>>
    /\ ctl = "none"
    /\ puzzle = <<>>
    /\ preset = <<>>
    /\ cellsToRemove = 0
    /\ removed = 0
    /\ visited = {}
    /\ boxes = 0
    /\ uniqueChecks = 0
    /\ ValidatorIdle
    /\ CounterIdle

InitGame ==
    /\ pc \in {"new", "store", "play"}
    /\ \E cfg \in StoreConfigs :
          /\ config' = cfg
          /\ storeBoard' = FilledGrid(cfg, 0)
          /\ preset' = FilledGrid(cfg, FALSE)
    /\ solution' = <<>>
    /\ selectedCell' = <<>>
    /\ isCompleteFlag' = FALSE
    /\ history' = <<>>
    /\ pc' = "store"
    /\ puzzle' = <<>>
    /\ moves' = 0
    /\ call' = "initGame"
    /\ returned' = "none"
    /\ emitted' = "none"
    /\ UNCHANGED <<grid, key, results, cntVars>>
    /\ UNCHANGED <<path, stack, ctl, cellsToRemove, removed, visited, boxes,
                   uniqueChecks>>

\* setPuzzleData with what generatePuzzleData made for the shape the store
\* was initialised with.  The config stays.
SetPuzzleData ==
    /\ pc \in {"store", "play"}
    /\ LET puzzleData == PuzzleData(config)
       IN  /\ storeBoard' = puzzleData.puzzle
           /\ solution' = puzzleData.solution
           /\ preset' = puzzleData.preset
           /\ puzzle' = puzzleData.puzzle
    /\ selectedCell' = <<>>
    /\ isCompleteFlag' = FALSE
    /\ history' = <<>>
    /\ pc' = "play"
    /\ moves' = 0
    /\ call' = "setPuzzleData"
    /\ returned' = "none"
    /\ emitted' = "none"
    /\ UNCHANGED <<grid, key, results, cntVars>>
    /\ UNCHANGED <<config, path, stack, ctl, cellsToRemove, removed, visited,
                   boxes, uniqueChecks>>

\* What the arguments of a setCell call ask for: a cell off the board, a
\* preset cell, or a cell of the player.
ArgKind(row, col) ==
    IF row \notin Idx(config) \/ col \notin Idx(config) THEN "range"
    ELSE IF preset[row][col] THEN "preset"
    ELSE "free"

SetCell(row, col, value) ==
    /\ pc \in {"store", "play"}
    /\ LET after == setCell(config, Store, row, col, value)
       IN  /\ Len(after.history) <= MaxMoves
           /\ storeBoard' = after.board
           /\ history' = after.history
           /\ isCompleteFlag' = after.isComplete
           /\ preset' = after.preset
           /\ moves' = moves + (IF ArgKind(row, col) = "free" THEN 1 ELSE 0)
    /\ call' = "setCell"
    /\ returned' = ArgKind(row, col)
    /\ UNCHANGED <<selectedCell, emitted, grid, key, results, cntVars>>
    /\ UNCHANGED <<config, pc, path, solution, stack, ctl, puzzle, cellsToRemove,
                   removed, visited, boxes, uniqueChecks>>

SetCellAny ==
    \E args \in SetCellArgs(config) : SetCell(args[1], args[2], args[3])

Undo ==
    /\ pc \in {"store", "play"}
    /\ LET after == undo(Store)
       IN  /\ storeBoard' = after.board
           /\ history' = after.history
           /\ isCompleteFlag' = after.isComplete
           /\ preset' = after.preset
    /\ moves' = moves - (IF history # <<>> THEN 1 ELSE 0)
    /\ call' = "undo"
    /\ returned' = IF history # <<>> THEN "entry" ELSE "empty"
    /\ UNCHANGED <<selectedCell, emitted, grid, key, results, cntVars>>
    /\ UNCHANGED <<config, pc, path, solution, stack, ctl, puzzle, cellsToRemove,
                   removed, visited, boxes, uniqueChecks>>

NextStore ==
    \/ InitGame
    \/ SetPuzzleData
    \/ SetCellAny
    \/ Undo

SpecStore == InitStore /\ [][NextStore]_vars

(***************************************************************************)
(* The handlers of GameBoard.vue and GameControls.vue over the store        *)
(***************************************************************************)
\* isCellPreset for a cell of the rendered board.
isCellPreset(mask, row, col) == mask[row][col]

\* Mutation: the check stops after the row and the column.
wouldCauseConflictNoBox(cfg, board, row, col, value) ==
    IF value = 0 THEN "none"
    ELSE IF \E c \in Idx(cfg) : c # col /\ board[row][c] = value THEN "row"
    ELSE IF \E r \in Idx(cfg) : r # row /\ board[r][col] = value THEN "column"
    ELSE "none"

\* wouldCauseConflict: the kind of the first rule the value would break at
\* the cell, the cell itself left out of each loop; "none" for null.
wouldCauseConflict(cfg, board, row, col, value) ==
    IF value = 0 THEN "none"
    ELSE IF \E c \in Idx(cfg) : c # col /\ board[row][c] = value THEN "row"
    ELSE IF \E r \in Idx(cfg) : r # row /\ board[r][col] = value THEN "column"
    ELSE LET startRow == row - (row % cfg.subRows)
             startCol == col - (col % cfg.subCols)
         IN  IF \E i \in 0 .. (cfg.subRows - 1) : \E j \in 0 .. (cfg.subCols - 1) :
                    /\ (startRow + i # row \/ startCol + j # col)
                    /\ board[startRow + i][startCol + j] = value
             THEN "box"
             ELSE "none"

\* A click on a cell: a preset cell clears the selection, any other cell
\* becomes the selected cell.
HandleCellClick ==
    /\ pc \in {"store", "play"}
    /\ \E p \in TouchCells(config) :
          selectedCell' = IF isCellPreset(preset, p[1], p[2]) THEN <<>> ELSE p
    /\ emitted' = "none"
    /\ UNCHANGED <<storeBoard, history, isCompleteFlag, moves>>
    /\ UNCHANGED <<genVars, valVars, cntVars>>

\* A click on the number pad or a key: nothing without a selected cell; 0
\* goes to setCell; a value that would break a rule emits 'conflict' with
\* the rule kind; any other value goes to setCell.
HandleNumberClick(value) ==
    /\ pc \in {"store", "play"}
    /\ IF selectedCell = <<>>
       THEN /\ emitted' = "none"
            /\ UNCHANGED <<storeBoard, history, isCompleteFlag, preset, moves>>
       ELSE LET row == selectedCell[1]
                col == selectedCell[2]
                conflictType == wouldCauseConflict(config, storeBoard, row, col, value)
                after == setCell(config, Store, row, col, value)
            IN  IF value # 0 /\ conflictType # "none"
                THEN /\ emitted' = conflictType
                     /\ UNCHANGED <<storeBoard, history, isCompleteFlag, preset, moves>>
                ELSE /\ Len(after.history) <= MaxMoves
                     /\ emitted' = "none"
                     /\ storeBoard' = after.board
                     /\ history' = after.history
                     /\ isCompleteFlag' = after.isComplete
                     /\ preset' = after.preset
                     /\ moves' = moves + (Len(after.history) - Len(history))
    /\ UNCHANGED <<selectedCell, valVars, cntVars>>
    /\ UNCHANGED <<config, pc, path, solution, stack, ctl, puzzle, cellsToRemove,
                   removed, visited, boxes, uniqueChecks>>

HandleNumberClickAny == \E value \in 0 .. config.size : HandleNumberClick(value)

\* The undo button of GameControls: undo when canUndo.
UndoClick ==
    /\ pc \in {"store", "play"}
    /\ LET after == IF Len(history) > 0 THEN undo(Store) ELSE Store
       IN  /\ storeBoard' = after.board
           /\ history' = after.history
           /\ isCompleteFlag' = after.isComplete
           /\ preset' = after.preset
           /\ moves' = moves - (Len(history) - Len(after.history))
    /\ emitted' = "none"
    /\ UNCHANGED <<selectedCell, valVars, cntVars>>
    /\ UNCHANGED <<config, pc, path, solution, stack, ctl, puzzle, cellsToRemove,
                   removed, visited, boxes, uniqueChecks>>

\* The player at the board: new games, clicks on cells and numbers, undo.
NextPlay ==
    \/ InitGame
    \/ SetPuzzleData
    \/ HandleCellClick
    \/ HandleNumberClickAny
    \/ UndoClick

SpecPlay == InitStore /\ [][NextPlay]_vars

(***************************************************************************)
(* Generator claims (Spec)                                                 *)
(***************************************************************************)
\* C1: the solution returned by generateSudoku has no zero cell, validate
\* reports no conflict on it, and every row, column and sub-region holds
\* each value 1..size exactly once, whatever the shuffles gave.
C1_SolutionValid ==
    pc = "done" =>
        /\ NoZero(config, solution)
        /\ validate(config, solution) = [isValid |-> TRUE]
        /\ Solved(config, solution)

C1_Witness ==
    /\ pc = "done"
    /\ path = "puzzle"
    /\ config.size = 4
    /\ NoZero(config, solution)

\* C2: in every returned {puzzle, solution, preset} a preset cell holds the
\* solution's (non-zero) value, every other cell holds 0, and
\* isSolutionValid(puzzle, solution) is true; on both carving paths.
C2_PuzzleConsistent ==
    pc = "done" =>
        /\ \A p \in Positions(config) :
              /\ Cell(preset, p) = TRUE =>
                    Cell(puzzle, p) = Cell(solution, p) /\ Cell(puzzle, p) # 0
              /\ Cell(preset, p) = FALSE => Cell(puzzle, p) = 0
        /\ isSolutionValid(config, puzzle, solution)

C2_Witness ==
    /\ pc = "done"
    /\ path = "puzzle"
    /\ Restored
    /\ \E p \in Positions(config) : ~Cell(preset, p) /\ Cell(puzzle, p) = 0

C4_QuotaBound ==
    (pc \in {"carve", "done"} /\ path = "puzzle") =>
        ZeroCount(config, puzzle) <=
            (config.size * config.size *
                (CASE config.difficulty = "easy" -> 40
                   [] config.difficulty = "medium" -> 55
                   [] config.difficulty = "hard" -> 70)) \div 100

C4_Witness ==
    /\ pc = "done"
    /\ path = "puzzle"
    /\ Restored
    /\ ZeroCount(config, puzzle) = cellsToRemove
    /\ cellsToRemove > 0

(***************************************************************************)
(* Validator claims (SpecValidator)                                        *)
(***************************************************************************)
ConflictsOf(res) == IF "conflicts" \in DOMAIN res THEN res.conflicts ELSE <<>>

\* The cells scanned before p in p's row, column or sub-region.
Earlier(cfg, type, p) ==
    CASE type = "row" -> { <<p[1], c>> : c \in 0 .. (p[2] - 1) }
      [] type = "column" -> { <<r, p[2]>> : r \in 0 .. (p[1] - 1) }
      [] type = "box" -> { q \in BoxOf(cfg, p) : RowMajor(cfg, q) < RowMajor(cfg, p) }

\* The grid that is empty but for v at (0,0) and (0,3).
PairInRow(cfg, g, v) ==
    /\ cfg.size >= 4
    /\ v # 0
    /\ \A p \in Positions(cfg) :
          Cell(g, p) = IF p \in {<<0, 0>>, <<0, 3>>} THEN v ELSE 0

\* C5: every conflict entry of validate sits at a cell whose value occurs
\* at an earlier-scanned cell of the same row / column / sub-region; the
\* first-scanned occurrence of a value in a line is never reported for that
\* line; equal values at (0,0) and (0,3) alone give exactly one conflict,
\* at (0,3), of type row.
C5_LaterCellOnly ==
    call = "validate" =>
        LET cs == ConflictsOf(returned)
        IN  /\ \A i \in 1 .. Len(cs) :
                  /\ <<cs[i].row, cs[i].col>> \in Positions(config)
                  /\ cs[i].value = grid[cs[i].row][cs[i].col]
                  /\ cs[i].value # 0
                  /\ \E q \in Earlier(config, cs[i].type, <<cs[i].row, cs[i].col>>) :
                        Cell(grid, q) = cs[i].value
            /\ \A p \in Positions(config) : \A type \in {"row", "column", "box"} :
                  (\A q \in Earlier(config, type, p) : Cell(grid, q) # Cell(grid, p))
                  => ~ \E i \in 1 .. Len(cs) :
                          cs[i].row = p[1] /\ cs[i].col = p[2] /\ cs[i].type = type
            /\ \A v \in 1 .. config.size :
                  PairInRow(config, grid, v) =>
                      cs = << [row |-> 0, col |-> 3, value |-> v, type |-> "row"] >>

C5_Witness ==
    /\ call = "validate"
    /\ PairInRow(config, grid, 3)
    /\ ConflictsOf(returned) = << [row |-> 0, col |-> 3, value |-> 3, type |-> "row"] >>

\* C6: validate(grid).isValid is true exactly when no two distinct cells of
\* one row, column or sub-region hold the same non-zero value.
C6_ValidIffNoDuplicate ==
    call = "validate" => (returned.isValid <=> NoDuplicate(config, grid))

C6_Witness ==
    /\ call = "validate"
    /\ config.size = 4
    /\ ~returned.isValid
    /\ \A i \in 1 .. Len(ConflictsOf(returned)) : ConflictsOf(returned)[i].type = "box"

\* C7 as stated: the result holds a conflicts list, and the list is empty
\* exactly when isValid is true.
C7_ListEmptyIffValid ==
    call = "validate" =>
        (("conflicts" \in DOMAIN returned /\ returned.conflicts = <<>>)
            <=> returned.isValid)

\* C7 amended: the result holds no conflicts list (conflicts is undefined)
\* exactly when isValid is true; a list that is present is never empty.
C7_ListAbsentIffValid ==
    call = "validate" =>
        /\ ("conflicts" \notin DOMAIN returned) <=> returned.isValid
        /\ "conflicts" \in DOMAIN returned => Len(returned.conflicts) > 0

C7_Witness ==
    /\ call = "validate"
    /\ returned.isValid
    /\ "conflicts" \notin DOMAIN returned
    /\ ~NoZero(config, grid)
    /\ grid # FilledGrid(config, 0)

\* C8: isComplete(grid) is true exactly when no cell is zero and validate
\* reports the grid valid, and the call leaves the grid as it was.
C8_CompleteIffFullAndValid ==
    /\ [](call = "isComplete" =>
            (returned <=> (NoZero(config, grid) /\ validate(config, grid).isValid)))
    /\ [][call' = "isComplete" => grid' = grid]_vars

C8_Witness ==
    /\ call = "isComplete"
    /\ returned = TRUE
    /\ NoZero(config, grid)

\* C9: for grids with cells in 0..size, isComplete is true exactly when
\* every row, column and sub-region is a permutation of 1..size: never on
\* the all-zero grid, always on a full rule-consistent grid, never on a
\* full grid with a duplicate in a row.
C9_CompleteIffSolved ==
    call = "isComplete" =>
        /\ returned <=> Solved(config, grid)
        /\ grid = FilledGrid(config, 0) => returned = FALSE
        /\ (NoZero(config, grid) /\ NoDuplicate(config, grid)) => returned = TRUE
        /\ (\E p \in Positions(config) : \E q \in Positions(config) :
               p # q /\ SameRow(p, q) /\ Cell(grid, p) = Cell(grid, q))
           => returned = FALSE

C9_Witness ==
    /\ call = "isComplete"
    /\ config.size = 4
    /\ NoZero(config, grid)
    /\ returned = FALSE
    /\ \E p \in Positions(config) : \E q \in Positions(config) :
          p # q /\ SameRow(p, q) /\ Cell(grid, p) = Cell(grid, q)

\* C10: isSolutionValid(grid, solution) is true exactly when every non-zero
\* cell of grid equals the solution's cell; zero cells and the placement
\* rules play no part.
C10_MatchesKey ==
    call = "isSolutionValid" =>
        (returned <=>
            \A p \in Positions(config) :
                Cell(grid, p) # 0 => Cell(grid, p) = Cell(key, p))

C10_Witness ==
    /\ call = "isSolutionValid"
    /\ returned = TRUE
    /\ ~NoDuplicate(config, grid)
    /\ ZeroCount(config, grid) > 0

Kept(g, B) == Cardinality({ p \in B : Cell(g, p) # 0 })

\* The least k with k >= n * pct / 100.
CeilOf(n, pct) ==
    CHOOSE k \in 0 .. n : 100 * k >= n * pct /\ 100 * (k - 1) < n * pct

\* C12, as the claim has it: an easy puzzle generateSudoku returns for a
\* size <= 9 keeps exactly ceil(subRows * subCols * 0.70) non-zero cells in
\* every sub-region.
C12_EasyKeepsPerBox ==
    (pc = "done" /\ path = "puzzle" /\ config.difficulty = "easy")
        => \A B \in BoxUnits(config) :
              Kept(puzzle, B) = CeilOf(config.subRows * config.subCols, 70)

\* C12, amended: an easy puzzle generateSudoku returns for a size <= 9 comes
\* from the quota loop of generatePuzzle run without the uniqueness check:
\* exactly floor(size * size * 0.40) cells are zero, they are the positions
\* the loop took, none was restored and hasUniqueSolution was never called.
C12_EasyQuotaKept ==
    (pc = "done" /\ path = "puzzle" /\ config.difficulty = "easy")
        => /\ 100 * ZeroCount(config, puzzle) <= 40 * config.size * config.size
           /\ 100 * (ZeroCount(config, puzzle) + 1) > 40 * config.size * config.size
           /\ removed = ZeroCount(config, puzzle)
           /\ visited = { p \in Positions(config) : Cell(puzzle, p) = 0 }
           /\ uniqueChecks = 0

\* An easy 4x4 puzzle returned with 6 cells zeroed and a sub-region that
\* keeps another number of cells than ceil(4 * 0.70) = 3.
C12_Witness ==
    /\ pc = "done"
    /\ path = "puzzle"
    /\ config.difficulty = "easy"
    /\ config.size = 4
    /\ ZeroCount(config, puzzle) = 6
    /\ \E B \in BoxUnits(config) : Kept(puzzle, B) # 3

\* C13: generateQuickPuzzle leaves exactly ceil(subRows * subCols * keepRatio)
\* non-zero cells in every sub-region, keepRatio 0.70 (easy), 0.50 (medium),
\* 0.30 (hard), the other cells of the sub-region are zero, and the method
\* never calls hasUniqueSolution.
C13_QuickKeepsPerBox ==
    LET ratio == CASE config.difficulty = "easy" -> 70
                   [] config.difficulty = "medium" -> 50
                   [] config.difficulty = "hard" -> 30
        cells == config.subRows * config.subCols
    IN  /\ (path = "quick") => uniqueChecks = 0
        /\ (pc = "done" /\ path = "quick")
              => \A B \in BoxUnits(config) :
                    /\ Kept(puzzle, B) = CeilOf(cells, ratio)
                    /\ Cardinality({ p \in B : Cell(puzzle, p) = 0 })
                          = cells - CeilOf(cells, ratio)
                    /\ \A p \in B : Cell(puzzle, p) \in {0, Cell(solution, p)}

\* A hard 4x4 puzzle returned by generateQuickPuzzle: 2 of 4 cells kept in
\* each sub-region.
C13_Witness ==
    /\ pc = "done"
    /\ path = "quick"
    /\ config.size = 4
    /\ config.difficulty = "hard"
    /\ \A B \in BoxUnits(config) : Kept(puzzle, B) = 2

\* C14: started on the all-zero grid of a shape with subRows * subCols =
\* size, solveSudoku terminates under every order of the shuffled candidates
\* and its outermost call returns true with the grid solved; it never
\* returns false.
C14_SolveReturnsTrue ==
    /\ [](config.subRows * config.subCols = config.size)
    /\ [](pc = "solve" /\ stack = <<>> => ctl \in {"call", "retT"})
    /\ [](pc \in {"carve", "quick"} => ctl = "retT" /\ Solved(config, solution))
    /\ (pc = "solve") ~> (pc \in {"carve", "quick"})

\* The outermost call on the 4x4 board has returned true.
C14_Witness ==
    /\ pc = "carve"
    /\ config.size = 4
    /\ ctl = "retT"
    /\ stack = <<>>
    /\ NoZero(config, solution)

\* C22: solveSudoku places, recurses and undoes.  When a call returns false
\* the board is cell for cell the board the call was entered with; the same
\* holds every time the call's loop is about to test a candidate, the cell it
\* fills being 0 again; and in every state of the search no row, column or
\* sub-region holds a non-zero value twice.
C22_PlaceRecurseUndo ==
    /\ [](pc = "solve" => NoDuplicate(config, solution))
    /\ [](pc = "solve" /\ ctl = "loop" => solution = Top.entry)
    /\ [][(pc = "solve" /\ ctl = "loop" /\ ctl' = "retF")
             => (solution' = Top.entry)]_vars

\* A call on the 4x4 board has returned false into its caller's loop, whose
\* candidate is still on the board.
C22_Witness ==
    /\ pc = "solve"
    /\ ctl = "retF"
    /\ stack # <<>>
    /\ config.size = 4
    /\ solution[Top.row][Top.col] # 0
    /\ NoDuplicate(config, solution)

\* C16: the carving loop of generatePuzzle ends.  Every iteration takes a
\* position no iteration took before, so there are at most size * size of
\* them; an iteration starts only while removed is below the quota; the
\* method returns when removed has reached the quota or every position was
\* taken, in the second case with fewer removals than the quota.
C16_CarveOnePass ==
    /\ [][(pc = "carve" /\ pc' = "carve")
            => /\ removed < cellsToRemove
               /\ \E p \in Positions(config) \ visited :
                     visited' = visited \cup {p}
               /\ removed' \in {removed, removed + 1}]_vars
    /\ [][(pc = "carve" /\ pc' # "carve")
            => /\ pc' = "done"
               /\ removed = cellsToRemove \/ visited = Positions(config)
               /\ <<puzzle, removed>>' = <<puzzle, removed>>]_vars
    /\ [](pc \in {"carve", "done"} /\ path = "puzzle"
            => /\ removed <= cellsToRemove
               /\ removed = ZeroCount(config, puzzle)
               /\ removed <= Cardinality(visited))

\* generatePuzzle returned with every position tried and fewer removals
\* than the quota.
C16_Witness ==
    /\ pc = "done"
    /\ path = "puzzle"
    /\ visited = Positions(config)
    /\ removed < cellsToRemove
    /\ ZeroCount(config, puzzle) = removed

Malformed ==
    \/ config.subRows * config.subCols # config.size
    \/ config.size <= 0 \/ config.subRows <= 0 \/ config.subCols <= 0
    \/ pc = "off" /\ DOMAIN grid # Idx(config)

\* C15, as the claim has it: a call of the generator or the validator with
\* a malformed shape never returns a puzzle or a result.
C15_MalformedNeverReturns ==
    Malformed => (pc # "done" /\ call = "none")

\* Every way to fill the empty cells of g one by one with a value no peer
\* holds at that moment.
RECURSIVE Fillings(_, _)
Fillings(cfg, g) ==
    LET E == { p \in Positions(cfg) : Cell(g, p) = 0 }
    IN  IF E = {}
        THEN {g}
        ELSE LET p == CHOOSE e \in E : TRUE
                 Free == { v \in 1 .. cfg.size :
                             \A q \in Peers(cfg, p) : Cell(g, q) # v }
             IN  UNION { Fillings(cfg, [g EXCEPT ![p[1]][p[2]] = v]) : v \in Free }

\* The completions of the board b: every empty cell of b holds a value
\* 1..size that no other cell of its row, column and sub-region holds.
LegalCompletions(cfg, b) ==
    { g \in Fillings(cfg, b) :
        \A p \in Positions(cfg) :
            Cell(b, p) = 0
                => /\ Cell(g, p) \in 1 .. cfg.size
                   /\ \A q \in Peers(cfg, p) : Cell(g, q) # Cell(g, p) }

\* C17: hasUniqueSolution returns true exactly when the board has one
\* completion, false when it has none and when it has two or more; the
\* counter is the number of completions up to 2 and never exceeds 2.  The
\* operator hasUniqueSolution the carving loop uses gives the same answer.
C17_TrueIffOneCompletion ==
    /\ solutionCount <= 2
    /\ pc = "counted"
          => LET n == Cardinality(LegalCompletions(config, puzzle))
             IN  /\ answer = <<n = 1>>
                 /\ solutionCount = IF n < 2 THEN n ELSE 2
                 /\ hasUniqueSolution(config, puzzle) = (n = 1)

\* The call returned true on a 4x4 board with four empty cells.
C17_Witness ==
    /\ pc = "counted"
    /\ config.size = 4
    /\ ZeroCount(config, puzzle) = 4
    /\ answer = <<TRUE>>
    /\ Cardinality(LegalCompletions(config, puzzle)) = 1

\* C18, as the claim has it: once solutionCount is 2 no candidate is tested
\* with isValid and none is placed on the board.
C18_NoCandidateAfterTwo ==
    /\ probes = 0
    /\ solutionCount > 1 => cctl # "call"

\* C18, amended: once solutionCount is 2 it stays 2 and no countSolutions
\* call gets past its entry check: no call scans the board or opens a loop,
\* so the recursion only unwinds.  The loops of the enclosing calls run on
\* to their end: they test their remaining candidates and place and reset
\* the legal ones.
C18_OnlyEntryCheckAborts ==
    /\ [][(solutionCount > 1 /\ pc = "count")
            => /\ solutionCount' = solutionCount
               /\ Len(cstack') <= Len(cstack)
               /\ cctl = "call" => (cctl' = "ret" /\ cstack' = cstack)
               /\ (cctl = "loop" /\ cstack' = cstack) => cctl' = "call"]_vars
    /\ [](solutionCount <= 2)
    /\ [](probes > 0 => solutionCount = 2)

\* With solutionCount at 2 an enclosing loop has tested a candidate and
\* placed it: the call about to be made will return at its entry check.
C18_Witness ==
    /\ pc = "count"
    /\ solutionCount = 2
    /\ probes > 0
    /\ cctl = "call"
    /\ \E p \in Positions(config) : Cell(puzzle, p) = 0 /\ Cell(testBoard, p) # 0

C21_PointCheck ==
    /\ [](call = "isValid"
            => LET p == <<key[1], key[2]>>
               IN  returned = (\A q \in Peers(config, p) \cup {p} :
                                  Cell(grid, q) # key[3]))
    /\ [][grid' = grid]_vars

\* A call on the 4x4 board that returns false for a value held in the
\* sub-region only.
C21_Witness ==
    /\ call = "isValid"
    /\ config.size = 4
    /\ returned = FALSE
    /\ \A x \in Idx(config) : grid[key[1]][x] # key[3] /\ grid[x][key[2]] # key[3]
    /\ \E q \in BoxOf(config, <<key[1], key[2]>>) : Cell(grid, q) = key[3]

\* The place of a conflict entry in the scan: the rule kinds in the order
\* row, column, box; inside the row kind row by row, inside the column kind
\* column by column, inside the box kind sub-region by sub-region (row-major
\* over the sub-regions) and row-major inside a sub-region.
KindRank(type) ==
    CASE type = "row" -> 0
      [] type = "column" -> 1
      [] type = "box" -> 2

ScanRank(cfg, e) ==
    LET cells == cfg.size * cfg.size
        inKind ==
            CASE e.type = "row" -> e.row * cfg.size + e.col
              [] e.type = "column" -> e.col * cfg.size + e.row
              [] e.type = "box" ->
                    ((e.row \div cfg.subRows) * (cfg.size \div cfg.subCols)
                        + (e.col \div cfg.subCols)) * (cfg.subRows * cfg.subCols)
                    + (e.row % cfg.subRows) * cfg.subCols + (e.col % cfg.subCols)
    IN  KindRank(e.type) * cells + inKind

\* The unit of p for a rule kind.
UnitOf(cfg, type, p) ==
    CASE type = "row" -> { q \in Positions(cfg) : q[1] = p[1] }
      [] type = "column" -> { q \in Positions(cfg) : q[2] = p[2] }
      [] type = "box" -> BoxOf(cfg, p)

UnitsOfKind(cfg, type) == { UnitOf(cfg, type, p) : p \in Positions(cfg) }

\* C23: the conflicts list of validate is in scan order: the row-kind
\* entries first, in row-major order of their cells, then the column-kind
\* entries in column-major order, then the box-kind entries, sub-region by
\* sub-region from top-left to bottom-right and row-major inside one.
C23_ScanOrder ==
    call = "validate" =>
        LET cs == ConflictsOf(returned)
        IN  \A i \in 1 .. Len(cs) : \A j \in 1 .. Len(cs) :
                i < j => ScanRank(config, cs[i]) < ScanRank(config, cs[j])

\* validate returned entries of the three kinds, two of them box-kind
\* entries of one sub-region of which the first lies in the higher row and
\* further right.
C23_Witness ==
    /\ call = "validate"
    /\ LET cs == ConflictsOf(returned)
       IN  /\ \A t \in {"row", "column", "box"} :
                 \E i \in 1 .. Len(cs) : cs[i].type = t
           /\ \E i \in 1 .. Len(cs) : \E j \in 1 .. Len(cs) :
                 /\ i < j
                 /\ cs[i].type = "box"
                 /\ cs[j].type = "box"
                 /\ BoxOf(config, <<cs[i].row, cs[i].col>>)
                        = BoxOf(config, <<cs[j].row, cs[j].col>>)
                 /\ cs[i].row < cs[j].row
                 /\ cs[i].col > cs[j].col

\* C24: a cell is listed by validate at most once per rule kind, and it is
\* listed for a kind exactly when a cell scanned earlier in its row, column
\* or sub-region holds its (non-zero) value; for every row the number of
\* row-kind entries is the number of non-zero cells of the row less the
\* number of distinct non-zero values in it, likewise for every column and
\* every sub-region.
C24_Multiplicity ==
    call = "validate" =>
        LET cs == ConflictsOf(returned)
            Listed(type, p) ==
                { i \in 1 .. Len(cs) :
                    cs[i].type = type /\ <<cs[i].row, cs[i].col>> = p }
        IN  /\ \A type \in {"row", "column", "box"} : \A p \in Positions(config) :
                  Cardinality(Listed(type, p)) =
                      IF /\ Cell(grid, p) # 0
                         /\ \E q \in Earlier(config, type, p) :
                               Cell(grid, q) = Cell(grid, p)
                      THEN 1 ELSE 0
            /\ \A type \in {"row", "column", "box"} :
               \A U \in UnitsOfKind(config, type) :
                  Cardinality({ i \in 1 .. Len(cs) :
                      cs[i].type = type /\ <<cs[i].row, cs[i].col>> \in U })
                  = Cardinality({ p \in U : Cell(grid, p) # 0 })
                    - Cardinality({ Cell(grid, p) : p \in U } \ {0})

\* validate ran on a grid with one value three times in a row: the row has
\* two row-kind entries, and one cell is listed under all three kinds.
C24_Witness ==
    /\ call = "validate"
    /\ LET cs == ConflictsOf(returned)
       IN  /\ \E r \in Idx(config) : \E v \in 1 .. config.size :
                 /\ Cardinality({ c \in Idx(config) : grid[r][c] = v }) = 3
                 /\ Cardinality({ i \in 1 .. Len(cs) :
                        cs[i].type = "row" /\ cs[i].row = r /\ cs[i].value = v }) = 2
           /\ \E p \in Positions(config) : \A t \in {"row", "column", "box"} :
                 \E i \in 1 .. Len(cs) :
                    cs[i].type = t /\ <<cs[i].row, cs[i].col>> = p

(***************************************************************************)
(* Game store claims (SpecStore)                                           *)
(***************************************************************************)
\* The store fields: what setCell and undo can read or write.
storeFields ==
    <<config, storeBoard, solution, preset, selectedCell, isCompleteFlag, history>>

\* C25: after setPuzzleData, through every sequence of setCell and undo,
\* the preset mask is the one the puzzle came with (true exactly at the
\* puzzle's non-zero cells), no setCell or undo step changes it, and every
\* preset cell of the board holds the value the puzzle gave it.
C25_PresetImmutable ==
    /\ [](pc = "play" =>
             \A p \in Positions(config) :
                /\ Cell(preset, p) = (Cell(puzzle, p) # 0)
                /\ Cell(preset, p) => Cell(storeBoard, p) = Cell(puzzle, p))
    /\ [][(pc = "play" /\ call' \in {"setCell", "undo"}) => (preset' = preset)]_vars

\* A setCell aimed at a preset cell has returned, after a move of the player.
C25_Witness ==
    /\ pc = "play"
    /\ call = "setCell"
    /\ returned = "preset"
    /\ history # <<>>
    /\ storeBoard # puzzle

\* C26: a setCell whose row or col is outside 0..size-1, or whose cell is
\* preset, changes no field of the store: not the board, not the history,
\* not isComplete, nor any other.
C26_RejectedChangesNothing ==
    [][(call' = "setCell" /\ returned' \in {"range", "preset"})
          => UNCHANGED storeFields]_vars

\* A setCell aimed off the board has returned while the history holds an
\* entry and isComplete is set.
C26_Witness ==
    /\ call = "setCell"
    /\ returned = "range"
    /\ history # <<>>
    /\ isCompleteFlag

\* C27, as the claim has it: in every state after setPuzzleData, isComplete
\* is true exactly when the board has no zero cell and validateBoard
\* reports it valid.
C27_CompleteFlagExact ==
    pc = "play" =>
        (isCompleteFlag <=>
            (NoZero(config, storeBoard) /\ validateBoard(config, storeBoard).isValid))

\* C28: undo reverts the most recent accepted setCell.  Right after an
\* accepted setCell, undo gives back the board and the history of before
\* that setCell, the history being one entry shorter than after it; the
\* history is as long as the count of accepted setCell calls less the undos
\* that took an entry, since the last initGame or setPuzzleData; an undo on
\* an empty history changes no store field.
C28_UndoRevertsLast ==
    /\ [](pc \in {"store", "play"} => Len(history) = moves)
    /\ [][(call' = "setCell" /\ returned' = "free") =>
             /\ undo(Store').board = storeBoard
             /\ undo(Store').history = history
             /\ Len(history') = Len(history) + 1]_vars
    /\ [][(call' = "undo" /\ history # <<>>) =>
             /\ storeBoard' = history[Len(history)].board
             /\ Len(history') = Len(history) - 1]_vars
    /\ [][(call' = "undo" /\ history = <<>>) => UNCHANGED storeFields]_vars

\* An undo has taken the entry of the second of two accepted setCell calls,
\* and the board is not the one setPuzzleData stored.
C28_Witness ==
    /\ pc = "play"
    /\ call = "undo"
    /\ returned = "entry"
    /\ moves = 1
    /\ Len(history) = 1
    /\ storeBoard # history[1].board

\* C29: on the store's config and board, validateBoard and
\* SudokuValidator.validate return the same isValid and the same conflict
\* entries in the same order.
C29_SameValidation ==
    pc \in {"store", "play"} =>
        validateBoard(config, storeBoard) = validate(config, storeBoard)

\* The board holds conflicts of the three kinds.
C29_Witness ==
    /\ pc = "play"
    /\ LET cs == ConflictsOf(validateBoard(config, storeBoard))
       IN  \A t \in {"row", "column", "box"} :
              \E i \in 1 .. Len(cs) : cs[i].type = t

(***************************************************************************)
(* Player input claims (SpecPlay)                                          *)
(***************************************************************************)
\* The cells of the row, the column and the sub-region of p, p included.
OwnUnits(cfg, p) == Peers(cfg, p) \cup {p}

\* The board stays free of duplicates, and a delete on a selected cell goes
\* to setCell: a snapshot is pushed and the cell is 0.
PlayKeepsRules ==
    /\ [](pc \in {"store", "play"} => NoDuplicate(config, storeBoard))
    /\ [][(HandleNumberClick(0) /\ selectedCell # <<>>) =>
             /\ history' = Append(history, [board |-> storeBoard])
             /\ storeBoard' = [storeBoard EXCEPT ![selectedCell[1]][selectedCell[2]] = 0]]_vars

\* C30, as the claim has it: player input never creates a conflict, a
\* delete always goes to setCell, and every non-zero value that occurs in
\* the row, the column or the sub-region of the selected cell (the selected
\* cell is one of their cells) is rejected with a 'conflict' event, board
\* and history unchanged.
C30_RejectsValueInUnits ==
    /\ PlayKeepsRules
    /\ [][\A v \in 1 .. config.size :
            (/\ HandleNumberClick(v)
             /\ selectedCell # <<>>
             /\ \E q \in OwnUnits(config, selectedCell) : Cell(storeBoard, q) = v)
            => (/\ emitted' \in {"row", "column", "box"}
                /\ UNCHANGED <<storeBoard, history>>)]_vars

\* C30, amended: from a conflict-free puzzle, through every sequence of
\* handleNumberClick and undo, the board has no duplicate in a row, column
\* or sub-region; a delete always goes to setCell; a non-zero value held by
\* another cell of the selected cell's row, column or sub-region is
\* rejected with a 'conflict' event, board and history unchanged; a value
\* held by no other such cell is passed to setCell, also when it is the
\* value the selected cell already holds.
C30_RejectsValueOfPeer ==
    /\ PlayKeepsRules
    /\ [][\A v \in 1 .. config.size :
            (HandleNumberClick(v) /\ selectedCell # <<>>) =>
                IF \E q \in Peers(config, selectedCell) : Cell(storeBoard, q) = v
                THEN /\ emitted' \in {"row", "column", "box"}
                     /\ UNCHANGED <<storeBoard, history>>
                ELSE /\ emitted' = "none"
                     /\ history' = Append(history, [board |-> storeBoard])
                     /\ Cell(storeBoard', selectedCell) = v]_vars

\* A value was rejected for its column after a move of the player.
C30_Witness ==
    /\ pc = "play"
    /\ emitted = "column"
    /\ selectedCell # <<>>
    /\ history # <<>>
    /\ storeBoard # puzzle

====
